---- MODULE Spec2Model ----
(***************************************************************************)
(* Model of the pocket-pitch firmware (src/sketch_nov2a.ino): the NDEF URI *)
(* TLV writer writeNtagUri, the reader readNtagNdefUri, and the periodic   *)
(* loop() that renders a QR code and writes the URL to an NFC tag.         *)
(*                                                                         *)
(* The tag is a page-addressed memory (4 bytes per page).  The PN532       *)
(* transport (ntag2xx_ReadPage / ntag2xx_WritePage / readPassiveTargetID)  *)
(* and the display are collaborators: every call made to them is recorded  *)
(* in the call trace of the operation that made it, and the environment    *)
(* decides which transport call is the first to fail.                      *)
(***************************************************************************)
EXTENDS Integers, Sequences, FiniteSets, TLC

VARIABLES
    mem,         \* tag memory: page index -> 4 bytes
    lastUpdate,  \* unsigned long lastUpdate (32 bits, as [hi, lo] 16-bit halves)
    currentQR,   \* int currentQR
    clock,       \* value millis() returns, 32 bits, as [hi, lo]
    sinceTick,   \* real milliseconds elapsed since lastUpdate was last set
    last,        \* the last operation run: arguments, return value, call trace
    stored,      \* the URL the last page-writing write left on the tag, if it succeeded
    steps        \* number of operations run so far

vars == <<mem, lastUpdate, currentQR, clock, sinceTick, last, stored, steps>>

----------------------------------------------------------------------------
(* Bounds of the model *)

MaxShortLen == 4     \* URLs of every length 0..MaxShortLen are written
MaxFail == 3         \* the first failing transport call is call 0..MaxFail, the last one, or none
MaxWrites == 1       \* writeNtagUri calls per behaviour of Spec
MaxPolls == 5        \* loop() iterations per behaviour of SpecLoop
MaxLoopFail == 0     \* as MaxFail, for the write a cycle of loop() makes
MaxPrefix == 5

(* writes made one after the other on the same tag *)
MaxSeqWrites == 3       \* tags read in SpecRead carry 0..MaxPrefix bytes before the TLV

----------------------------------------------------------------------------
(* Program constants *)

PageSize == 4        \* bytes per NTAG page

(* mutant: the writer and the reader start at the capability container *)
FirstPage_CC == PageSize - 1

FirstPage == 4       \* first user page
UrlCap == 200        \* urlLen > 200 is rejected
ScanCap == 128       \* reader: iter < 128
MAX_NDEF == 480      \* reader: ndefBytes[MAX_NDEF]
TlvBufSize == 520    \* writer: tlv[520]
NumPages == 135      \* pages of an NTAG215 (504 bytes of user memory + 9 other pages)
W16 == 65536         \* half of a 32-bit word
IntervalMs == 60000  \* updateInterval = 60000

Min(a, b) == IF a < b THEN a ELSE b

(* uint8_t cast *)
U8(n) == n % 256

(* uint16_t arithmetic on the page counter *)
U16(n) == n % W16

----------------------------------------------------------------------------
(* unsigned long (32-bit) arithmetic, a value being [hi, lo] with           *)
(* value = hi * 65536 + lo                                                  *)

Mk32(h, l) == [hi |-> h, lo |-> l]

Zero32 == Mk32(0, 0)

updateInterval == Mk32(0, IntervalMs)

Sub32(a, b) ==
    LET d == a.lo - b.lo
        borrow == IF d < 0 THEN 1 ELSE 0
    IN  Mk32((a.hi - b.hi - borrow + W16) % W16, (d + W16) % W16)

Add32(a, b) ==
    LET s == a.lo + b.lo
        carry == IF s >= W16 THEN 1 ELSE 0
    IN  Mk32((a.hi + b.hi + carry) % W16, s % W16)

Geq32(a, b) == a.hi > b.hi \/ (a.hi = b.hi /\ a.lo >= b.lo)

----------------------------------------------------------------------------
(* QR list *)

qrList ==
    << [name |-> "ESPN Homepage",
        url |-> <<104, 116, 116, 112, 115, 58, 47, 47, 119, 119, 119, 46,
                  101, 115, 112, 110, 46, 99, 111, 109>>],
       [name |-> "Purdue University",
        url |-> <<104, 116, 116, 112, 115, 58, 47, 47, 119, 119, 119, 46,
                  112, 117, 114, 100, 117, 101, 46, 101, 100, 117>>],
       [name |-> "GitHub",
        url |-> <<104, 116, 116, 112, 115, 58, 47, 47, 119, 119, 119, 46,
                  103, 105, 116, 104, 117, 98, 46, 99, 111, 109>>] >>

(* sizeof(qrList) / sizeof(qrList[0]) *)
numQRs == Len(qrList)

----------------------------------------------------------------------------
(* The transport: call number n of an operation succeeds when the          *)
(* environment lets it (n < okCalls) and the page exists on the tag.       *)

NoFail == ScanCap + 1

TransportOk(m, page, n, okCalls) == n < okCalls /\ page \in DOMAIN m

Call(op, arg, data, ok) == [op |-> op, arg |-> arg, data |-> data, ok |-> ok]

----------------------------------------------------------------------------
(* writeNtagUri *)

(* mutant: "https://" is abbreviated to identifier code 0x04 *)
NdefRecord_Abbreviates(url) ==
    IF Len(url) >= 8 /\ SubSeq(url, 1, 8) = <<104, 116, 116, 112, 115, 58, 47, 47>>
    THEN <<209, 1, U8(1 + Len(url) - 8), 85, 4>> \o SubSeq(url, 9, Len(url))
    ELSE <<209, 1, U8(1 + Len(url)), 85, 0>> \o url

(* the NDEF short record: header, type length, payload length, 'U', id code, URL *)
NdefRecord(url) == <<209, 1, U8(1 + Len(url)), 85, 0>> \o url

(* the TLV: 0x03, one length byte, the record, the 0xFE terminator *)
TlvBlock(ndef) == <<3, U8(Len(ndef))>> \o ndef \o <<254>>

(* mutant: no zero padding, the buffer keeps the bytes of the page before *)
PageBuf_Stale(tlv, offset) ==
    [i \in 1..PageSize |->
        IF offset + i <= Len(tlv) THEN tlv[offset + i]
        ELSE IF offset + i - PageSize >= 1 THEN tlv[offset + i - PageSize]
        ELSE 0]

(* the 4-byte page buffer filled from tlv[offset..], zero padded *)
PageBuf(tlv, offset) ==
    [i \in 1..PageSize |->
        IF offset + i <= Len(tlv) THEN tlv[offset + i] ELSE 0]

(* the locals of the page loop; running is false once the loop has been left *)
WriteStart(m, calls) ==
    [offset |-> 0, writePage |-> FirstPage, mem |-> m, calls |-> calls,
     ok |-> TRUE, running |-> TRUE]

(* mutant: a failed page write is reported but the loop goes on *)
WriteIter_GoesOn(tlv, okCalls, s) ==
    IF ~s.running THEN s
    ELSE IF ~(s.offset < Len(tlv)) THEN [s EXCEPT !.running = FALSE]
    ELSE LET buf == PageBuf(tlv, s.offset)
             good == TransportOk(s.mem, s.writePage, Len(s.calls), okCalls)
             c == Call("writePage", s.writePage, buf, good)
         IN  [s EXCEPT !.calls = Append(@, c),
                       !.ok = @ /\ good,
                       !.mem = IF good THEN [@ EXCEPT ![s.writePage] = buf] ELSE @,
                       !.offset = Min(@ + PageSize, Len(tlv)),
                       !.writePage = U16(@ + 1)]

(* mutant: a page that already holds data is not written again *)
WriteIter_WriteOnce(tlv, okCalls, s) ==
    IF ~s.running THEN s
    ELSE IF ~(s.offset < Len(tlv)) THEN [s EXCEPT !.running = FALSE]
    ELSE LET buf == PageBuf(tlv, s.offset)
             good == TransportOk(s.mem, s.writePage, Len(s.calls), okCalls)
             c == Call("writePage", s.writePage, buf, good)
             blank == s.mem[s.writePage] = <<0, 0, 0, 0>>
         IN  IF ~good
             THEN [s EXCEPT !.calls = Append(@, c), !.ok = FALSE,
                            !.running = FALSE]
             ELSE [s EXCEPT !.calls = Append(@, c),
                            !.mem = IF blank THEN [@ EXCEPT ![s.writePage] = buf]
                                    ELSE @,
                            !.offset = Min(@ + PageSize, Len(tlv)),
                            !.writePage = U16(@ + 1)]

(* mutant: a page write that is reported failed has stored its bytes *)
WriteIter_TornPage(tlv, okCalls, s) ==
    IF ~s.running THEN s
    ELSE IF ~(s.offset < Len(tlv)) THEN [s EXCEPT !.running = FALSE]
    ELSE LET buf == PageBuf(tlv, s.offset)
             good == TransportOk(s.mem, s.writePage, Len(s.calls), okCalls)
             c == Call("writePage", s.writePage, buf, good)
         IN  IF ~good
             THEN [s EXCEPT !.calls = Append(@, c), !.ok = FALSE,
                            !.mem = [@ EXCEPT ![s.writePage] = buf],
                            !.running = FALSE]
             ELSE [s EXCEPT !.calls = Append(@, c),
                            !.mem = [@ EXCEPT ![s.writePage] = buf],
                            !.offset = Min(@ + PageSize, Len(tlv)),
                            !.writePage = U16(@ + 1)]

(* one pass of while (offset < tp): fill the buffer, write the page, step *)
WriteIter(tlv, okCalls, s) ==
    IF ~s.running THEN s
    ELSE IF ~(s.offset < Len(tlv)) THEN [s EXCEPT !.running = FALSE]
    ELSE LET buf == PageBuf(tlv, s.offset)
             good == TransportOk(s.mem, s.writePage, Len(s.calls), okCalls)
             c == Call("writePage", s.writePage, buf, good)
         IN  IF ~good
             THEN [s EXCEPT !.calls = Append(@, c), !.ok = FALSE,
                            !.running = FALSE]
             ELSE [s EXCEPT !.calls = Append(@, c),
                            !.mem = [@ EXCEPT ![s.writePage] = buf],
                            !.offset = Min(@ + PageSize, Len(tlv)),
                            !.writePage = U16(@ + 1)]

(* n passes of the page loop, one after the other *)
RECURSIVE WriteLoop(_, _, _, _)
WriteLoop(tlv, okCalls, s, n) ==
    IF n = 0 THEN s
    ELSE IF n = 1 THEN WriteIter(tlv, okCalls, s)
    ELSE LET h == n \div 2
             t == WriteLoop(tlv, okCalls, s, h)
         IN  IF t.running THEN WriteLoop(tlv, okCalls, t, n - h) ELSE t

(* the page loop run to its end: tlv[520] bounds its passes *)
WritePages(tlv, m, calls, okCalls) ==
    LET s == WriteLoop(tlv, okCalls, WriteStart(m, calls),
                       (TlvBufSize \div PageSize) + 1)
    IN  [ok |-> s.ok,
         exit |-> IF s.ok THEN "complete" ELSE "WriteFailedAtPage",
         mem |-> s.mem, calls |-> s.calls]

(* mutant: the cap is off by one, a URL of 200 bytes is rejected *)
UrlTooLong_OffByOne(urlLen) == urlLen >= UrlCap

(* mutant: no cap on the length of the URL *)
UrlTooLong_NoCap(urlLen) == urlLen < 0

(* the length test of the URL *)
UrlTooLong(urlLen) == urlLen > UrlCap

(* the length test of the record *)
FitsOneByte(np) == np <= 255

(* mutant: the result of the read of page 4 is not tested *)
writeNtagUri_NoPreflightTest(url, m, okCalls) ==
    IF UrlTooLong(Len(url))
    THEN [ok |-> FALSE, exit |-> "ValueTooLarge", mem |-> m, calls |-> <<>>]
    ELSE LET ndef == NdefRecord(url)
         IN  IF ~FitsOneByte(Len(ndef))
             THEN [ok |-> FALSE, exit |-> "RecordTooLarge", mem |-> m,
                   calls |-> <<>>]
             ELSE LET tlv == TlvBlock(ndef)
                      good == TransportOk(m, FirstPage, 0, okCalls)
                      c == Call("readPage", FirstPage,
                                IF good THEN m[FirstPage] ELSE <<>>, good)
                  IN  WritePages(tlv, m, <<c>>, okCalls)

writeNtagUri(url, m, okCalls) ==
    IF UrlTooLong(Len(url))
    THEN [ok |-> FALSE, exit |-> "ValueTooLarge", mem |-> m, calls |-> <<>>]
    ELSE LET ndef == NdefRecord(url)
         IN  IF ~FitsOneByte(Len(ndef))
             THEN [ok |-> FALSE, exit |-> "RecordTooLarge", mem |-> m,
                   calls |-> <<>>]
             ELSE LET tlv == TlvBlock(ndef)
                      good == TransportOk(m, FirstPage, 0, okCalls)
                      c == Call("readPage", FirstPage,
                                IF good THEN m[FirstPage] ELSE <<>>, good)
                  IN  IF ~good
                      THEN [ok |-> FALSE, exit |-> "TagUnresponsive",
                            mem |-> m, calls |-> <<c>>]
                      ELSE WritePages(tlv, m, <<c>>, okCalls)

----------------------------------------------------------------------------
(* readNtagNdefUri *)

(* the locals of the reader; done is set by goto parse_done, running is    *)
(* false once the page loop has been left                                  *)
ScanInit ==
    [seenTlvStart |-> FALSE, seenLen |-> FALSE, ndefLen |-> 0,
     collected |-> 0, ndefBytes |-> <<>>, done |-> FALSE,
     page |-> FirstPage, calls |-> <<>>, running |-> TRUE]

(* mutant: strict TLV validation, a byte that is neither NULL nor 0x03     *)
(* before the TLV ends the scan                                            *)
ScanByte_StrictNull(s, b) ==
    IF ~s.seenTlvStart
    THEN IF b = 0 THEN s
         ELSE IF b = 3 THEN [s EXCEPT !.seenTlvStart = TRUE]
         ELSE [s EXCEPT !.done = TRUE]
    ELSE IF ~s.seenLen
    THEN [s EXCEPT !.ndefLen = b, !.seenLen = TRUE, !.done = (b = 0)]
    ELSE IF s.collected < s.ndefLen /\ Len(s.ndefBytes) < MAX_NDEF
    THEN [s EXCEPT !.ndefBytes = Append(@, b),
                   !.collected = @ + 1,
                   !.done = (s.collected + 1 >= s.ndefLen)]
    ELSE s

(* mutant: an empty TLV does not end the scan *)
ScanByte_EmptyGoesOn(s, b) ==
    IF ~s.seenTlvStart
    THEN IF b = 0 THEN s
         ELSE IF b = 3 THEN [s EXCEPT !.seenTlvStart = TRUE]
         ELSE s
    ELSE IF ~s.seenLen
    THEN [s EXCEPT !.ndefLen = b, !.seenLen = TRUE]
    ELSE IF s.collected < s.ndefLen /\ Len(s.ndefBytes) < MAX_NDEF
    THEN [s EXCEPT !.ndefBytes = Append(@, b),
                   !.collected = @ + 1,
                   !.done = (s.collected + 1 >= s.ndefLen)]
    ELSE s

(* one byte through the scanner *)
ScanByte(s, b) ==
    IF ~s.seenTlvStart
    THEN IF b = 0 THEN s
         ELSE IF b = 3 THEN [s EXCEPT !.seenTlvStart = TRUE]
         ELSE s
    ELSE IF ~s.seenLen
    THEN [s EXCEPT !.ndefLen = b, !.seenLen = TRUE, !.done = (b = 0)]
    ELSE IF s.collected < s.ndefLen /\ Len(s.ndefBytes) < MAX_NDEF
    THEN [s EXCEPT !.ndefBytes = Append(@, b),
                   !.collected = @ + 1,
                   !.done = (s.collected + 1 >= s.ndefLen)]
    ELSE s

(* the inner loop over the 4 bytes of a page, left at parse_done *)
RECURSIVE ScanPage(_, _, _)
ScanPage(s, buf, i) ==
    IF i > PageSize \/ s.done THEN s
    ELSE ScanPage(ScanByte(s, buf[i]), buf, i + 1)

(* mutant: parse_done only leaves the byte loop, the page loop reads on *)
ScanIter_ReadsOn(m, okCalls, s) ==
    IF ~s.running THEN s
    ELSE LET good == TransportOk(m, s.page, Len(s.calls), okCalls)
             c == Call("readPage", s.page, IF good THEN m[s.page] ELSE <<>>, good)
         IN  IF ~good
             THEN [s EXCEPT !.calls = Append(@, c), !.running = FALSE]
             ELSE LET s2 == ScanPage([s EXCEPT !.calls = Append(@, c)],
                                     m[s.page], 1)
                  IN  [s2 EXCEPT !.page = U16(@ + 1)]

(* one pass of the page loop: read the page, scan it, page++ *)
ScanIter(m, okCalls, s) ==
    IF ~s.running THEN s
    ELSE LET good == TransportOk(m, s.page, Len(s.calls), okCalls)
             c == Call("readPage", s.page, IF good THEN m[s.page] ELSE <<>>, good)
         IN  IF ~good
             THEN [s EXCEPT !.calls = Append(@, c), !.running = FALSE]
             ELSE LET s2 == ScanPage([s EXCEPT !.calls = Append(@, c)],
                                     m[s.page], 1)
                  IN  IF s2.done THEN [s2 EXCEPT !.running = FALSE]
                      ELSE [s2 EXCEPT !.page = U16(@ + 1)]

(* n passes of the page loop, one after the other *)
RECURSIVE ScanLoop(_, _, _, _)
ScanLoop(m, okCalls, s, n) ==
    IF n = 0 THEN s
    ELSE IF n = 1 THEN ScanIter(m, okCalls, s)
    ELSE LET h == n \div 2
             t == ScanLoop(m, okCalls, s, h)
         IN  IF t.running THEN ScanLoop(m, okCalls, t, n - h) ELSE t

(* for (iter = 0; iter < 128; ++iter) *)
ScanPages(m, okCalls) == ScanLoop(m, okCalls, ScanInit, ScanCap)

(* mutant: the entries of codes 3 and 4 are exchanged *)
UriPrefix_Swapped34(idCode) ==
    CASE idCode = 1 -> <<104, 116, 116, 112, 58, 47, 47, 119, 119, 119, 46>>
      [] idCode = 2 -> <<104, 116, 116, 112, 115, 58, 47, 47, 119, 119, 119, 46>>
      [] idCode = 3 -> <<104, 116, 116, 112, 115, 58, 47, 47>>
      [] idCode = 4 -> <<104, 116, 116, 112, 58, 47, 47>>
      [] OTHER -> <<>>

(* the prefix table of the identifier code *)
UriPrefix(idCode) ==
    CASE idCode = 1 -> <<104, 116, 116, 112, 58, 47, 47, 119, 119, 119, 46>>
      [] idCode = 2 -> <<104, 116, 116, 112, 115, 58, 47, 47, 119, 119, 119, 46>>
      [] idCode = 3 -> <<104, 116, 116, 112, 58, 47, 47>>
      [] idCode = 4 -> <<104, 116, 116, 112, 115, 58, 47, 47>>
      [] OTHER -> <<>>

(* mutant: the URI is taken from the identifier code byte on *)
ParseNdef_KeepsIdCode(s) ==
    IF ~s.seenTlvStart \/ ~s.seenLen \/ s.collected = 0
    THEN [uri |-> <<>>, exit |-> "NotFound"]
    ELSE IF Len(s.ndefBytes) < 5
    THEN [uri |-> <<>>, exit |-> "TooShort"]
    ELSE [uri |-> UriPrefix(s.ndefBytes[5])
                    \o SubSeq(s.ndefBytes, 5, Len(s.ndefBytes)),
          exit |-> "Uri"]

(* mutant: the record is decoded without the test of its length, the    *)
(* identifier code is taken from the buffer whatever was collected       *)
ParseNdef_NoLengthTest(s) ==
    IF ~s.seenTlvStart \/ ~s.seenLen \/ s.collected = 0
    THEN [uri |-> <<>>, exit |-> "NotFound"]
    ELSE LET idCode == IF Len(s.ndefBytes) >= 5 THEN s.ndefBytes[5] ELSE 0
             uri == SubSeq(s.ndefBytes, 6, Len(s.ndefBytes))
         IN  [uri |-> UriPrefix(idCode) \o uri, exit |-> "Uri"]

(* the parse after parse_done *)
ParseNdef(s) ==
    IF ~s.seenTlvStart \/ ~s.seenLen \/ s.collected = 0
    THEN [uri |-> <<>>, exit |-> "NotFound"]
    ELSE IF Len(s.ndefBytes) < 5
    THEN [uri |-> <<>>, exit |-> "TooShort"]
    ELSE LET idCode == s.ndefBytes[5]
             uri == SubSeq(s.ndefBytes, 6, Len(s.ndefBytes))
         IN  [uri |-> UriPrefix(idCode) \o uri, exit |-> "Uri"]

readNtagNdefUri(m, okCalls) ==
    LET s == ScanPages(m, okCalls)
        p == ParseNdef(s)
    IN  [uri |-> p.uri, exit |-> p.exit, scan |-> s, calls |-> s.calls]

----------------------------------------------------------------------------
(* loop(): one iteration, with now the value millis() returned and present *)
(* the result of the one readPassiveTargetID probe                         *)

(* mutant: the tick test is strict *)
TickDue_Strict(now, lastUpd) ==
    Geq32(Sub32(now, lastUpd), Mk32(0, IntervalMs + 1))

(* mutant: the test is written now >= lastUpdate + updateInterval *)
TickDue_Deadline(now, lastUpd) == Geq32(now, Add32(lastUpd, updateInterval))

(* the tick test *)
TickDue(now, lastUpd) == Geq32(Sub32(now, lastUpd), updateInterval)

(* the rotation step *)
NextQR(cur) == (cur + 1) % numQRs

(* mutant: the write is attempted whether or not a tag answered the probe *)
Cycle_WritesAnyway(now, cur, m, present, okCalls) ==
    LET qr == qrList[cur + 1]
        render == Call("render", cur, qr.url, TRUE)
        probe == Call("probe", 0, <<>>, present)
        w == writeNtagUri(qr.url, m, okCalls)
    IN  [fired |-> TRUE, lastUpdate |-> now, currentQR |-> (cur + 1) % numQRs,
         mem |-> w.mem, ok |-> w.ok, exit |-> w.exit, url |-> qr.url,
         calls |-> <<render, probe>> \o w.calls]

(* mutant: the tag is handled before the entry is rendered *)
Cycle_TagFirst(now, cur, m, present, okCalls) ==
    LET qr == qrList[cur + 1]
        render == Call("render", cur, qr.url, TRUE)
        probe == Call("probe", 0, <<>>, present)
        w == IF present
             THEN writeNtagUri(qr.url, m, okCalls)
             ELSE [ok |-> FALSE, exit |-> "NoTag", mem |-> m, calls |-> <<>>]
    IN  [fired |-> TRUE, lastUpdate |-> now, currentQR |-> (cur + 1) % numQRs,
         mem |-> w.mem, ok |-> w.ok, exit |-> w.exit, url |-> qr.url,
         calls |-> <<probe>> \o w.calls \o <<render>>]

(* mutant: a failed write leaves the rotation index where it was *)
Cycle_StopsOnFailure(now, cur, m, present, okCalls) ==
    LET qr == qrList[cur + 1]
        render == Call("render", cur, qr.url, TRUE)
        probe == Call("probe", 0, <<>>, present)
        w == IF present
             THEN writeNtagUri(qr.url, m, okCalls)
             ELSE [ok |-> FALSE, exit |-> "NoTag", mem |-> m, calls |-> <<>>]
    IN  [fired |-> TRUE, lastUpdate |-> now,
         currentQR |-> IF present /\ ~w.ok THEN cur ELSE NextQR(cur),
         mem |-> w.mem, ok |-> w.ok, exit |-> w.exit, url |-> qr.url,
         calls |-> <<render, probe>> \o w.calls]

(* mutant: a write that failed is attempted a second time in the cycle *)
Cycle_Retries(now, cur, m, present, okCalls) ==
    LET qr == qrList[cur + 1]
        render == Call("render", cur, qr.url, TRUE)
        probe == Call("probe", 0, <<>>, present)
        w1 == IF present
              THEN writeNtagUri(qr.url, m, okCalls)
              ELSE [ok |-> FALSE, exit |-> "NoTag", mem |-> m, calls |-> <<>>]
        w2 == writeNtagUri(qr.url, w1.mem, NoFail)
        w == IF present /\ ~w1.ok
             THEN [w2 EXCEPT !.calls = w1.calls \o w2.calls]
             ELSE w1
    IN  [fired |-> TRUE, lastUpdate |-> now, currentQR |-> NextQR(cur),
         mem |-> w.mem, ok |-> w.ok, exit |-> w.exit, url |-> qr.url,
         calls |-> <<render, probe>> \o w.calls]

(* mutant: after the write the cycle polls the tag again, as            *)
(* waitForTagRemoval does, before it advances                            *)
Cycle_WaitsForRemoval(now, cur, m, present, okCalls) ==
    LET qr == qrList[cur + 1]
        render == Call("render", cur, qr.url, TRUE)
        probe == Call("probe", 0, <<>>, present)
        gone == Call("probe", 0, <<>>, FALSE)
        w == IF present
             THEN writeNtagUri(qr.url, m, okCalls)
             ELSE [ok |-> FALSE, exit |-> "NoTag", mem |-> m, calls |-> <<>>]
    IN  [fired |-> TRUE, lastUpdate |-> now, currentQR |-> NextQR(cur),
         mem |-> w.mem, ok |-> w.ok, exit |-> w.exit, url |-> qr.url,
         calls |-> <<render, probe>> \o w.calls
                   \o (IF present THEN <<probe, gone>> ELSE <<>>)]

(* the body of the if: render, probe, write when a tag answered, advance *)
Cycle(now, cur, m, present, okCalls) ==
    LET qr == qrList[cur + 1]
        render == Call("render", cur, qr.url, TRUE)
        probe == Call("probe", 0, <<>>, present)
        w == IF present
             THEN writeNtagUri(qr.url, m, okCalls)
             ELSE [ok |-> FALSE, exit |-> "NoTag", mem |-> m, calls |-> <<>>]
    IN  [fired |-> TRUE, lastUpdate |-> now, currentQR |-> NextQR(cur),
         mem |-> w.mem, ok |-> w.ok, exit |-> w.exit, url |-> qr.url,
         calls |-> <<render, probe>> \o w.calls]

loop(now, lastUpd, cur, m, present, okCalls) ==
    IF TickDue(now, lastUpd)
    THEN Cycle(now, cur, m, present, okCalls)
    ELSE [fired |-> FALSE, lastUpdate |-> lastUpd, currentQR |-> cur,
          mem |-> m, ok |-> FALSE, exit |-> "NotDue", url |-> <<>>,
          calls |-> <<>>]

----------------------------------------------------------------------------
(* Inputs *)

(* a URL of length n of printable ASCII bytes (33..126) *)
PatternUrl(n) == [i \in 1..n |-> 33 + ((7 * i) % 94)]

(* lengths around the cap, and past the one-byte record length *)
LongLens == {UrlCap - 1, UrlCap, UrlCap + 1, 251}

Urls ==
    {PatternUrl(n) : n \in (0..MaxShortLen) \cup LongLens}
        \cup {qrList[k].url : k \in 1..numQRs}

(* pages 0..3: UID, lock bytes, capability container *)
ReservedPage(p) ==
    CASE p = 0 -> <<4, 161, 178, 159>>
      [] p = 1 -> <<195, 212, 229, 128>>
      [] p = 2 -> <<114, 72, 0, 0>>
      [] OTHER -> <<225, 16, 62, 0>>

(* a tag whose user pages hold stream, then fill *)
TagOf(stream, fill) ==
    [p \in 0..(NumPages - 1) |->
        IF p < FirstPage THEN ReservedPage(p)
        ELSE [i \in 1..PageSize |->
                LET k == (p - FirstPage) * PageSize + i
                IN  IF k <= Len(stream) THEN stream[k] ELSE fill]]

InitTags ==
    { TagOf(<<>>, 0),                              \* zeroed user memory
      TagOf(<<1, 3, 160, 12, 52, 3, 0, 254>>, 0),  \* NTAG21x as shipped
      TagOf(TlvBlock(NdefRecord(PatternUrl(UrlCap))), 0),  \* already carries a 200-byte URL
      TagOf(<<>>, 170) }                           \* user memory full of 0xAA

(* tag contents the reader is run on: a URI-shaped record of any type    *)
(* byte and identifier code, framed in a TLV, after any bytes but 0x03   *)
TagRecord(type, idCode, payload) ==
    <<209, 1, U8(1 + Len(payload)), type, idCode>> \o payload

TagTlv(len, body) == <<3, len>> \o body \o <<254>>

Fill(n, b) == [i \in 1..n |-> b]

(* "a.b" and the host part of the first qrList entry *)
Payloads == {<<>>, <<97, 46, 98>>, SubSeq(qrList[1].url, 9, 20)}

(* 'T', 'U', 0 *)
TypeBytes == {84, 85, 0}

IdCodes == {0, 1, 2, 3, 4, 5, 35, 255}

PrefixLens == (0..MaxPrefix) \cup {500}

(* NULL TLV, a lock control tag byte, the terminator, 0xAA *)
PrefixBytes == {0, 1, 254, 170}

ReadStreams ==
    {TagTlv(5 + Len(p), TagRecord(t, c, p)) :
        t \in TypeBytes, c \in IdCodes, p \in Payloads}
    \cup {Fill(n, b) \o TagTlv(5 + Len(p), TagRecord(85, 0, p)) :
        n \in PrefixLens, b \in PrefixBytes, p \in Payloads \ {<<>>}}
    \cup {Fill(n, 0) \o <<3, 0, 254>> : n \in 0..PageSize}
    \cup {Fill(n, 0) \o TagTlv(len, SubSeq(TagRecord(85, 0, <<97>>), 1, len)) :
        n \in {0, 1}, len \in 1..4}
    \cup {<<>>, <<1, 3, 160, 12, 52, 3, 0, 254>>}

ReadTags == {TagOf(st, 0) : st \in ReadStreams} \cup {TagOf(<<>>, 170)}

(* the number of transport calls of a complete write of url *)
TotalCalls(url) == 1 + ((Len(url) + 8 + PageSize - 1) \div PageSize)

(* where the environment makes the transport fail first *)
FailPoints(total) == (0..MaxFail) \cup {total - 1, NoFail}

LoopFailPoints(total) == (0..MaxLoopFail) \cup {total - 1, NoFail}

(* milliseconds between two polls of millis() *)
BigStep == 2147483647 - (IntervalMs - 1)

Deltas == {0, 1, IntervalMs - 1, IntervalMs, BigStep}

ToU32(n) == Mk32(n \div W16, n % W16)

----------------------------------------------------------------------------
(* State machine *)

(* the locals of the reader at parse_done *)
NoScan ==
    [seenTlvStart |-> FALSE, seenLen |-> FALSE, ndefLen |-> 0,
     collected |-> 0, ndefBytes |-> <<>>]

ScanLocals(s) ==
    [seenTlvStart |-> s.seenTlvStart, seenLen |-> s.seenLen,
     ndefLen |-> s.ndefLen, collected |-> s.collected,
     ndefBytes |-> s.ndefBytes]

NoOp ==
    [op |-> "none", url |-> <<>>, ok |-> FALSE, uri |-> <<>>, exit |-> "",
     calls |-> <<>>, fired |-> FALSE, entry |-> 0, elapsed |-> 0,
     scan |-> NoScan]

NothingStored == [valid |-> FALSE, url |-> <<>>]

(* what the tag holds after a write: the URL of a write that succeeded,   *)
(* nothing known after a write that failed once it had written a page     *)
StoredAfter(w, url, before) ==
    IF w.ok THEN [valid |-> TRUE, url |-> url]
    ELSE IF \E i \in 1..Len(w.calls) : w.calls[i].op = "writePage" /\ w.calls[i].ok
         THEN NothingStored
         ELSE before

Init ==
    /\ mem \in InitTags
    /\ lastUpdate = Zero32
    /\ currentQR = 0
    /\ clock = Zero32
    /\ sinceTick = 0
    /\ last = NoOp
    /\ stored = NothingStored
    /\ steps = 0

(* a call of writeNtagUri(nfc, url) *)
Write(url, okCalls) ==
    /\ steps < MaxWrites
    /\ LET w == writeNtagUri(url, mem, okCalls)
       IN  /\ mem' = w.mem
           /\ last' = [NoOp EXCEPT !.op = "write", !.url = url, !.ok = w.ok,
                                   !.exit = w.exit, !.calls = w.calls]
           /\ stored' = StoredAfter(w, url, stored)
    /\ steps' = steps + 1
    /\ UNCHANGED <<lastUpdate, currentQR, clock, sinceTick>>

(* a call of readNtagNdefUri(nfc) *)
Read(okCalls) ==
    /\ last.op # "read"
    /\ LET r == readNtagNdefUri(mem, okCalls)
       IN  last' = [NoOp EXCEPT !.op = "read", !.uri = r.uri, !.exit = r.exit,
                                !.calls = r.calls,
                                !.scan = ScanLocals(r.scan)]
    /\ UNCHANGED <<mem, lastUpdate, currentQR, clock, sinceTick, stored, steps>>

(* one iteration of loop(), delta milliseconds after the previous one *)
Loop(delta, present, okCalls) ==
    /\ steps < MaxPolls
    /\ LET now == Add32(clock, ToU32(delta))
           r == loop(now, lastUpdate, currentQR, mem, present, okCalls)
       IN  /\ clock' = now
           /\ lastUpdate' = r.lastUpdate
           /\ currentQR' = r.currentQR
           /\ mem' = r.mem
           /\ sinceTick' = IF r.fired THEN 0 ELSE sinceTick + delta
           /\ last' = [NoOp EXCEPT !.op = "loop", !.url = r.url, !.ok = r.ok,
                                   !.exit = r.exit, !.calls = r.calls,
                                   !.fired = r.fired, !.entry = currentQR,
                                   !.elapsed = sinceTick + delta]
           /\ stored' = IF r.fired /\ r.exit # "NoTag"
                        THEN StoredAfter(r, r.url, stored) ELSE stored
    /\ steps' = steps + 1

WriteStep == \E url \in Urls : \E k \in FailPoints(TotalCalls(url)) : Write(url, k)

ReadStep == \E k \in FailPoints(ScanCap) : Read(k)

LoopStep ==
    \E delta \in Deltas : \E present \in BOOLEAN :
        \E k \in LoopFailPoints(TotalCalls(qrList[currentQR + 1].url)) :
            Loop(delta, present, k)

Next == WriteStep \/ ReadStep

Spec == Init /\ [][Next]_vars

(* the sketch running, with a tag that already carries a record *)
InitLoop ==
    /\ Init
    /\ mem = TagOf(TlvBlock(NdefRecord(PatternUrl(UrlCap))), 0)

NextLoop == LoopStep

(* the reader run on a tag of any content *)
InitRead ==
    /\ mem \in ReadTags
    /\ lastUpdate = Zero32
    /\ currentQR = 0
    /\ clock = Zero32
    /\ sinceTick = 0
    /\ last = NoOp
    /\ stored = NothingStored
    /\ steps = 0

NextRead == ReadStep

SpecRead == InitRead /\ [][NextRead]_vars

SpecLoop == InitLoop /\ [][NextLoop]_vars

(* writes that succeed, one over the other, and reads of what they left *)
SeqLens == {0, 1, UrlCap - 1, UrlCap}

SeqUrls == {PatternUrl(n) : n \in SeqLens} \cup {qrList[1].url, qrList[3].url}

SeqTags == {TagOf(<<>>, 0), TagOf(TlvBlock(NdefRecord(PatternUrl(UrlCap))), 0)}

InitSeq ==
    /\ mem \in SeqTags
    /\ lastUpdate = Zero32
    /\ currentQR = 0
    /\ clock = Zero32
    /\ sinceTick = 0
    /\ last = NoOp
    /\ stored = NothingStored
    /\ steps = 0

(* a call of writeNtagUri(nfc, url) on the tag the calls before it wrote *)
WriteOver(url) ==
    /\ steps < MaxSeqWrites
    /\ LET w == writeNtagUri(url, mem, NoFail)
       IN  /\ mem' = w.mem
           /\ last' = [NoOp EXCEPT !.op = "write", !.url = url, !.ok = w.ok,
                                   !.exit = w.exit, !.calls = w.calls]
           /\ stored' = StoredAfter(w, url, stored)
    /\ steps' = steps + 1
    /\ UNCHANGED <<lastUpdate, currentQR, clock, sinceTick>>

WriteOverStep == \E url \in SeqUrls : WriteOver(url)

ReadBackStep == Read(NoFail)

NextSeq == WriteOverStep \/ ReadBackStep

SpecSeq == InitSeq /\ [][NextSeq]_vars

----------------------------------------------------------------------------
(* Vocabulary of the properties *)

(* the positions of the call trace that are calls of op *)
CallsOf(op) == {i \in 1..Len(last.calls) : last.calls[i].op = op}

IsPageCall(c) == c.op = "readPage" \/ c.op = "writePage"

AllCallsOk == \A i \in 1..Len(last.calls) : last.calls[i].ok

(* the wire format of the record of url, as the specification gives it *)
WireTlv(url) ==
    <<3, 5 + Len(url), 209, 1, 1 + Len(url), 85, 0>> \o url \o <<254>>

(* the first k bytes of the user memory of the tag, from page 4 on *)
TagBytes(m, k) ==
    [j \in 1..k |-> m[4 + ((j - 1) \div 4)][((j - 1) % 4) + 1]]

(* ceil(t / 4) *)
PagesFor(t) == (t + 3) \div 4

(* the 4 bytes page number k (from 0) of a byte sequence carries, zero padded *)
PageOf(bytes, k) ==
    [i \in 1..4 |-> IF 4 * k + i <= Len(bytes) THEN bytes[4 * k + i] ELSE 0]

HttpsPrefix == <<104, 116, 116, 112, 115, 58, 47, 47>>

----------------------------------------------------------------------------
(* C1: round trip.  A read whose page reads all succeed, made on a tag on  *)
(* which the last write succeeded, returns exactly the URL of that write.  *)
C1_RoundTrip ==
    (last.op = "read" /\ stored.valid /\ AllCallsOk) => last.uri = stored.url

(* a 200-byte URL was written and read back *)
C1_Witness ==
    /\ last.op = "read"
    /\ stored.valid
    /\ AllCallsOk
    /\ Len(stored.url) = 200
    /\ last.uri = stored.url

(* C2: wire format.  After a successful write of a URL of n bytes the tag  *)
(* holds, from page 4 on, 0x03, 5+n, 0xD1, 0x01, 1+n, 0x55, 0x00, the URL  *)
(* bytes and 0xFE: n + 8 bytes, the record length plus 3; the identifier   *)
(* code is 0x00 also for a URL that starts with "https://".                *)
C2_WireFormat ==
    (last.op = "write" /\ last.ok) =>
        LET n == Len(last.url)
            bytes == TagBytes(mem, n + 8)
        IN  /\ n <= 200
            /\ bytes = WireTlv(last.url)
            /\ bytes[2] + 3 = n + 8
            /\ bytes[7] = 0

(* a URL starting with "https://" was written *)
C2_Witness ==
    /\ last.op = "write"
    /\ last.ok
    /\ Len(last.url) >= 8
    /\ SubSeq(last.url, 1, 8) = HttpsPrefix
    /\ TagBytes(mem, 7) = <<3, 5 + Len(last.url), 209, 1, 1 + Len(last.url), 85, 0>>

(* C3: page count.  A successful write of a TLV of T = urlLen + 8 bytes    *)
(* makes exactly ceil(T/4) writePage calls, on pages 4, 5, ... in this     *)
(* order, page 4+k carrying TLV bytes 4k..4k+3, zero padded past the end.  *)
C3_PageCount ==
    (last.op = "write" /\ last.ok) =>
        LET T == Len(last.url) + 8
            w == CallsOf("writePage")
        IN  /\ Cardinality(w) = PagesFor(T)
            /\ w = 2..(PagesFor(T) + 1)
            /\ \A i \in w :
                 /\ last.calls[i].arg = 4 + (i - 2)
                 /\ last.calls[i].data = PageOf(WireTlv(last.url), i - 2)

(* a 1-byte URL: T = 9, 3 pages, the last one 0xFE and 3 zero bytes *)
C3_Witness ==
    /\ last.op = "write"
    /\ last.ok
    /\ Len(last.url) = 1
    /\ Cardinality(CallsOf("writePage")) = 3
    /\ last.calls[Len(last.calls)].arg = 6
    /\ last.calls[Len(last.calls)].data = <<254, 0, 0, 0>>

(* C4: URL length boundary.  A write of a URL longer than 200 bytes fails  *)
(* with ValueTooLarge, makes no transport call and leaves the tag as it    *)
(* was; a URL of 200 bytes is not rejected, and is written when the        *)
(* transport does not fail.                                                *)
C4_UrlLengthBoundary ==
    [][ (last'.op = "write" /\ steps' = steps + 1) =>
          /\ Len(last'.url) > 200 =>
                /\ ~last'.ok
                /\ last'.exit = "ValueTooLarge"
                /\ last'.calls = <<>>
                /\ mem' = mem
          /\ Len(last'.url) <= 200 => last'.exit # "ValueTooLarge"
          /\ (Len(last'.url) = 200
                /\ \A i \in 1..Len(last'.calls) : last'.calls[i].ok)
                => (last'.ok /\ Len(last'.calls) = 53) ]_vars

(* a URL of 201 bytes was rejected *)
C4_Witness ==
    /\ last.op = "write"
    /\ Len(last.url) = 201
    /\ ~last.ok
    /\ last.exit = "ValueTooLarge"
    /\ last.calls = <<>>

(* C5: abort on write failure.  A failed writePage call is the last        *)
(* transport call of its write, and the write returns failure.             *)
C5_AbortOnWriteFailure ==
    last.op = "write" =>
        \A i \in CallsOf("writePage") :
            ~last.calls[i].ok =>
                /\ i = Len(last.calls)
                /\ ~last.ok
                /\ last.exit = "WriteFailedAtPage"
                /\ \A j \in CallsOf("writePage") :
                     j # i => last.calls[j].arg # last.calls[i].arg

(* the write of page 6 failed after pages 4 and 5 were written *)
C5_Witness ==
    /\ last.op = "write"
    /\ Len(last.calls) = 4
    /\ last.calls[4].op = "writePage"
    /\ last.calls[4].arg = 6
    /\ ~last.calls[4].ok
    /\ last.calls[3].ok
    /\ ~last.ok

(* C6: pre-flight check.  A write that makes a transport call first reads  *)
(* page 4, once; if that read fails the write fails with no writePage call *)
(* and the tag is unchanged.                                               *)
C6_Preflight ==
    [][ (last'.op = "write" /\ steps' = steps + 1 /\ last'.calls # <<>>) =>
          LET c == last'.calls
              reads == {i \in 1..Len(c) : c[i].op = "readPage"}
          IN  /\ reads = {1}
              /\ c[1].arg = 4
              /\ ~c[1].ok =>
                    /\ ~last'.ok
                    /\ last'.exit = "TagUnresponsive"
                    /\ Len(c) = 1
                    /\ mem' = mem ]_vars

(* the read of page 4 failed *)
C6_Witness ==
    /\ last.op = "write"
    /\ Len(last.calls) = 1
    /\ last.calls[1].op = "readPage"
    /\ ~last.calls[1].ok
    /\ ~last.ok

(* C7: reserved pages.  Every readPage and writePage call of the writer    *)
(* and of the reader is on a page index of at least 4, and pages 0..3 of   *)
(* the tag keep their content.                                             *)
C7_ReservedPages ==
    /\ \A i \in 1..Len(last.calls) :
         IsPageCall(last.calls[i]) => last.calls[i].arg >= 4
    /\ \A p \in 0..3 : mem[p] = ReservedPage(p)

(* after a write, the reader scanned all its 128 pages, up to page 131 *)
C7_Witness ==
    /\ last.op = "read"
    /\ steps = 1
    /\ Len(last.calls) = 128
    /\ last.calls[128].arg = 131

(* the probe of the cycle, and the render call of the cycle *)
ProbeFailed ==
    \E i \in CallsOf("probe") : ~last.calls[i].ok

RenderedEntry(e) ==
    \E i \in CallsOf("render") :
        last.calls[i].arg = e /\ last.calls[i].data = qrList[e + 1].url

(* C8: scheduler timing.  An iteration of loop() fires a cycle exactly     *)
(* when at least 60000 ms have passed since the last tick (since start,    *)
(* before the first one); firing sets the last tick time to the current    *)
(* time and not firing leaves it, so two cycles are never less than one    *)
(* interval apart.                                                         *)
C8_SchedulerTiming ==
    [][ (last'.op = "loop" /\ steps' = steps + 1) =>
          /\ last'.fired <=> last'.elapsed >= 60000
          /\ last'.fired => (lastUpdate' = clock' /\ last'.calls # <<>>)
          /\ ~last'.fired =>
                /\ lastUpdate' = lastUpdate
                /\ currentQR' = currentQR
                /\ last'.calls = <<>> ]_vars

(* polls at 0 and 59999 fired nothing and the third poll, at 60000, fired  *)
(* the first cycle                                                         *)
C8_Witness ==
    /\ last.op = "loop"
    /\ steps = 3
    /\ clock = Mk32(0, 60000)
    /\ last.elapsed = 60000
    /\ last.fired
    /\ last.entry = 0
    /\ currentQR = 1
    /\ lastUpdate = clock

(* C9: tag-absent path.  In a cycle whose probe returns false no readPage  *)
(* and no writePage call is made, the current entry is rendered and the    *)
(* rotation index advances by 1 modulo the list length.                    *)
C9_TagAbsent ==
    (last.op = "loop" /\ last.fired /\ ProbeFailed) =>
        /\ \A i \in 1..Len(last.calls) : ~IsPageCall(last.calls[i])
        /\ RenderedEntry(last.entry)
        /\ currentQR = (last.entry + 1) % 3

(* a cycle without a tag rendered the last entry and wrapped the index *)
C9_Witness ==
    /\ last.op = "loop"
    /\ last.fired
    /\ ProbeFailed
    /\ last.entry = 2
    /\ RenderedEntry(2)
    /\ currentQR = 0

(* C10, as stated: in a cycle the render call comes after the probe and    *)
(* after every page call of the write.                                     *)
C10_TagBeforeRender ==
    (last.op = "loop" /\ last.fired) =>
        \A r \in CallsOf("render") :
            \A i \in 1..Len(last.calls) :
                (last.calls[i].op = "probe" \/ IsPageCall(last.calls[i])) => i < r

(* C10, amended: in every cycle the current entry is rendered first, then  *)
(* the tag is probed once and, if present, written with the URL of that    *)
(* entry, and whatever the write outcome the rotation index then advances  *)
(* by 1 modulo the list length.                                            *)
C10_RenderThenTagThenAdvance ==
    (last.op = "loop" /\ last.fired) =>
        /\ CallsOf("render") = {1}
        /\ RenderedEntry(last.entry)
        /\ CallsOf("probe") = {2}
        /\ \A i \in 1..Len(last.calls) : IsPageCall(last.calls[i]) => i > 2
        /\ last.calls[2].ok <=> Len(last.calls) > 2
        /\ last.url = qrList[last.entry + 1].url
        /\ currentQR = (last.entry + 1) % 3

(* a cycle with a tag whose write failed rendered first and still advanced *)
C10_Witness ==
    /\ last.op = "loop"
    /\ last.fired
    /\ last.calls[1].op = "render"
    /\ last.calls[2].op = "probe"
    /\ last.calls[2].ok
    /\ last.exit = "WriteFailedAtPage"
    /\ currentQR = (last.entry + 1) % 3

----------------------------------------------------------------------------
(* Vocabulary of the reader properties *)

(* the bytes of the 128 pages the reader may scan, pages 4..131 *)
Window == TagBytes(mem, 512)

(* the position in bytes of the first 0x03, 0 if there is none *)
FirstTlv(bytes) ==
    LET at == {j \in 1..Len(bytes) : bytes[j] = 3}
    IN  IF at = {} THEN 0 ELSE CHOOSE j \in at : \A i \in at : j <= i

(* the page that holds byte number j of the window *)
PageOfByte(j) == 4 + ((j - 1) \div 4)

(* the number of pages the reader got *)
PagesRead == Cardinality({i \in 1..Len(last.calls) : last.calls[i].ok})

(* the record the reader collected *)
Collected == last.scan.ndefBytes

(* C11, as the claim states it: a collected record of at least 5 bytes     *)
(* whose type byte is not 0x55 is refused, no URI is returned.             *)
C11_TypeChecked ==
    (last.op = "read" /\ Len(Collected) >= 5 /\ Collected[4] # 85) =>
        (last.exit # "Uri" /\ last.uri = <<>>)

(* C12, as the claim states it: when the page stream ends after the length *)
(* byte L and before L record bytes were collected, no URI is returned.    *)
C12_TruncatedRefused ==
    (last.op = "read" /\ last.scan.seenLen
        /\ last.scan.collected < last.scan.ndefLen) =>
        (last.exit # "Uri" /\ last.uri = <<>>)

(* C13: bounded scan.  The reader makes at most 128 readPage calls, on     *)
(* pages 4, 5, ... in this order (131 at most), none after a failed one    *)
(* and none after the page that holds the last advertised record byte.     *)
C13_BoundedScan ==
    last.op = "read" =>
        LET k == FirstTlv(Window)
            len == IF k > 0 /\ k < 512 THEN Window[k + 1] ELSE 0
        IN  /\ Len(last.calls) <= 128
            /\ \A i \in 1..Len(last.calls) :
                 /\ last.calls[i].op = "readPage"
                 /\ last.calls[i].arg = 4 + (i - 1)
                 /\ last.calls[i].arg <= 131
                 /\ ~last.calls[i].ok => i = Len(last.calls)
            /\ (k > 0 /\ k < 512 /\ k + 1 + len <= 512) =>
                 \A i \in 1..Len(last.calls) :
                     last.calls[i].arg <= PageOfByte(k + 1 + len)

(* a record that ends on page 9 was read: 6 page reads, the last on page 9 *)
C13_Witness ==
    /\ last.op = "read"
    /\ AllCallsOk
    /\ FirstTlv(Window) = 6
    /\ Window[7] = 17
    /\ Len(last.calls) = 6
    /\ last.calls[6].arg = 9
    /\ Len(Collected) = 17

(* C14: scan leniency.  Whatever bytes other than 0x03 precede the TLV,    *)
(* when the TLV lies inside the 128 scanned pages and the reads succeed    *)
(* the reader collects exactly the L bytes after the length byte, and      *)
(* returns the URI they carry.                                             *)
C14_ScanLeniency ==
    (last.op = "read" /\ AllCallsOk) =>
        LET k == FirstTlv(Window)
            len == IF k > 0 /\ k < 512 THEN Window[k + 1] ELSE 0
        IN  (k > 0 /\ len > 0 /\ k + 1 + len <= 512) =>
                /\ Collected = SubSeq(Window, k + 2, k + 1 + len)
                /\ (len >= 5 /\ Collected[5] = 0) =>
                      (last.exit = "Uri" /\ last.uri = SubSeq(Collected, 6, len))

(* five terminator bytes (0xFE) precede the TLV and "a.b" is returned *)
C14_Witness ==
    /\ last.op = "read"
    /\ AllCallsOk
    /\ \A j \in 1..5 : Window[j] = 254
    /\ FirstTlv(Window) = 6
    /\ last.exit = "Uri"
    /\ last.uri = <<97, 46, 98>>

----------------------------------------------------------------------------
(* Properties of the cycle around the write *)

(* the cycle just run probed a tag that answered and its write failed *)
WriteFailedInCycle ==
    /\ last.op = "loop"
    /\ last.fired
    /\ ~ProbeFailed
    /\ ~last.ok

(* C15: a failed write is not fatal.  In a cycle where the tag is present  *)
(* and writeNtagUri returns failure the entry of the cycle is rendered,    *)
(* the rotation index advances by 1 modulo the list length and the tick    *)
(* time is set as after a success; the iteration of loop() after such a    *)
(* cycle fires exactly when one interval has passed since it.              *)
C15_FailedWriteNotFatal ==
    [][ (last'.op = "loop" /\ steps' = steps + 1) =>
          /\ WriteFailedInCycle' =>
                /\ last'.exit \in {"ValueTooLarge", "RecordTooLarge",
                                   "TagUnresponsive", "WriteFailedAtPage"}
                /\ last'.calls[1] = Call("render", currentQR,
                                         qrList[currentQR + 1].url, TRUE)
                /\ currentQR' = (currentQR + 1) % 3
                /\ lastUpdate' = clock'
                /\ sinceTick' = 0
          /\ WriteFailedInCycle =>
                /\ last'.elapsed = Sub32(clock', lastUpdate).lo
                                     + W16 * Sub32(clock', lastUpdate).hi
                /\ last'.fired <=> last'.elapsed >= 60000 ]_vars

(* the cycle of the second entry found a tag that did not answer the       *)
(* pre-flight read: the entry was rendered and the index moved to the      *)
(* third entry                                                             *)
C15_Witness ==
    /\ WriteFailedInCycle
    /\ last.exit = "TagUnresponsive"
    /\ last.entry = 1
    /\ RenderedEntry(1)
    /\ currentQR = 2
    /\ lastUpdate = clock
    /\ steps < MaxPolls

(* C16: one write attempt per tick.  The page calls of a cycle are those   *)
(* of at most one run of writeNtagUri: none when the probe reported no     *)
(* tag, otherwise one pre-flight read of page 4 followed by the pages of   *)
(* the record of the URL of the current entry, the entry rendered in the   *)
(* same cycle, written once each in order from page 4, and a page call     *)
(* that failed is the last call of the cycle.                              *)
C16_OneWriteAttempt ==
    (last.op = "loop" /\ last.fired) =>
        LET url == qrList[last.entry + 1].url
            t == WireTlv(url)
            n == Len(last.calls)
        IN  /\ RenderedEntry(last.entry)
            /\ last.url = url
            /\ ProbeFailed => \A i \in 1..n : ~IsPageCall(last.calls[i])
            /\ ~ProbeFailed =>
                  /\ CallsOf("readPage") = {3}
                  /\ last.calls[3].arg = 4
                  /\ CallsOf("writePage") = 4..n
                  /\ n <= 3 + PagesFor(Len(t))
                  /\ \A i \in 4..n :
                        /\ last.calls[i].arg = 4 + (i - 4)
                        /\ last.calls[i].data = PageOf(t, i - 4)
                  /\ \A i \in 3..n : ~last.calls[i].ok => i = n
                  /\ last.ok <=> (n = 3 + PagesFor(Len(t)) /\ last.calls[n].ok)

(* the cycle of the first entry found a tag, read page 4 once and wrote    *)
(* the 7 pages of the record of "https://www.espn.com"; the last write     *)
(* failed and nothing followed it                                          *)
C16_Witness ==
    /\ last.op = "loop"
    /\ last.fired
    /\ last.entry = 0
    /\ ~ProbeFailed
    /\ Len(last.calls) = 3 + PagesFor(Len(WireTlv(qrList[1].url)))
    /\ ~last.calls[Len(last.calls)].ok
    /\ \A i \in 3..(Len(last.calls) - 1) : last.calls[i].ok
    /\ last.calls[4].data = <<3, 5 + Len(qrList[1].url), 209, 1>>
    /\ ~last.ok

(* C17: non-blocking scheduler.  Every cycle makes exactly one presence    *)
(* probe, the second call of the cycle, and never polls the tag again      *)
(* (no removal wait); it makes one render call and at most the transport   *)
(* calls of one write, so it ends after a bounded number of collaborator   *)
(* calls, and it ends with the rotation index advanced, with a tag and     *)
(* without one.                                                            *)
C17_NonBlocking ==
    (last.op = "loop" /\ last.fired) =>
        /\ Cardinality(CallsOf("probe")) = 1
        /\ Cardinality(CallsOf("render")) = 1
        /\ last.calls[Len(last.calls)].op # "probe" \/ Len(last.calls) = 2
        /\ Len(last.calls) <= 2 + TotalCalls(qrList[last.entry + 1].url)
        /\ Len(last.calls) =
              2 + Cardinality(CallsOf("readPage")) + Cardinality(CallsOf("writePage"))
        /\ currentQR = NextQR(last.entry)
        /\ lastUpdate = clock

(* the cycle of the third entry found a tag, probed it once, wrote the     *)
(* whole record and ended with the index back at the first entry           *)
C17_Witness ==
    /\ last.op = "loop"
    /\ last.fired
    /\ last.entry = 2
    /\ last.ok
    /\ CallsOf("probe") = {2}
    /\ Len(last.calls) = 2 + TotalCalls(qrList[3].url)
    /\ last.calls[Len(last.calls)].op = "writePage"
    /\ currentQR = 0

----------------------------------------------------------------------------
(* Properties of the reader's results *)

(* the bytes of the pages the reader did read *)
Scanned == SubSeq(Window, 1, 4 * PagesRead)

(* C18: NotFound.  The reader returns the empty result, by the not-found   *)
(* exit, when no byte 0x03 is among the bytes of the pages it read, up to  *)
(* the cap of 128 pages, and when the byte after the first 0x03 is 0; in   *)
(* the second case the page of that length byte is the last page read.     *)
C18_NotFound ==
    last.op = "read" =>
        LET k == FirstTlv(Scanned)
        IN  /\ k = 0 =>
                  /\ last.exit = "NotFound"
                  /\ last.uri = <<>>
                  /\ AllCallsOk => Len(last.calls) = 128
            /\ (k > 0 /\ k < Len(Scanned) /\ Scanned[k + 1] = 0) =>
                  /\ last.exit = "NotFound"
                  /\ last.uri = <<>>
                  /\ AllCallsOk
                  /\ Len(last.calls) = PageOfByte(k + 1) - 3
                  /\ last.calls[Len(last.calls)].arg = PageOfByte(k + 1)

(* three NULL bytes, then 03 00 FE: the length byte is the first byte of   *)
(* page 5, the reader read pages 4 and 5 and returned nothing              *)
C18_Witness ==
    /\ last.op = "read"
    /\ SubSeq(Window, 1, 6) = <<0, 0, 0, 3, 0, 254>>
    /\ Len(last.calls) = 2
    /\ AllCallsOk
    /\ last.exit = "NotFound"
    /\ last.uri = <<>>

(* C19: short record.  When the reader has collected at least one and      *)
(* fewer than 5 record bytes, because the TLV advertises 1 to 4 bytes or   *)
(* because the scan ended early, the decode is refused by the length test  *)
(* before any record byte is used and the result is empty; with no byte    *)
(* collected the result is empty as well.                                  *)
C19_ShortRecord ==
    (last.op = "read" /\ last.scan.seenLen /\ last.scan.ndefLen > 0
        /\ Len(Collected) < 5) =>
        /\ last.uri = <<>>
        /\ last.exit = IF Len(Collected) = 0 THEN "NotFound" ELSE "TooShort"
        /\ last.scan.collected = Len(Collected)

(* a TLV of length 4 holding D1 01 02 55: every page was read, the four    *)
(* bytes were collected and the reader returned nothing                    *)
C19_Witness ==
    /\ last.op = "read"
    /\ AllCallsOk
    /\ last.scan.ndefLen = 4
    /\ Collected = <<209, 1, 2, 85>>
    /\ last.exit = "TooShort"
    /\ last.uri = <<>>

(* "http://" and "www." as bytes *)
HttpScheme == <<104, 116, 116, 112, 58, 47, 47>>

Www == <<119, 119, 119, 46>>

(* the prefix table as the property gives it *)
PrefixTable(c) ==
    IF c = 1 THEN HttpScheme \o Www
    ELSE IF c = 2 THEN HttpsPrefix \o Www
    ELSE IF c = 3 THEN HttpScheme
    ELSE IF c = 4 THEN HttpsPrefix
    ELSE <<>>

(* the collected bytes are a whole URI record: D1 01 len 55 code payload,  *)
(* with a payload free of NUL bytes                                        *)
WellFormedUriRecord ==
    /\ last.scan.seenLen
    /\ last.scan.collected = last.scan.ndefLen
    /\ Len(Collected) = last.scan.ndefLen
    /\ Len(Collected) >= 5
    /\ Collected[1] = 209
    /\ Collected[2] = 1
    /\ Collected[3] = Len(Collected) - 4
    /\ Collected[4] = 85
    /\ \A i \in 6..Len(Collected) : Collected[i] # 0

(* C20: prefix table on decode.  For a well-formed URI record with         *)
(* identifier code c and payload p the reader returns prefix(c) followed   *)
(* by p, with "http://www." for 1, "https://www." for 2, "http://" for 3,  *)
(* "https://" for 4 and the empty prefix for 0 and for every other code,   *)
(* which is decoded and not refused.                                       *)
C20_PrefixTable ==
    (last.op = "read" /\ WellFormedUriRecord) =>
        /\ last.exit = "Uri"
        /\ last.uri = PrefixTable(Collected[5])
                        \o SubSeq(Collected, 6, Len(Collected))

(* a record with code 4 and payload "www.espn.com" was read back as the    *)
(* URL of the first entry of the list, "https://www.espn.com"              *)
C20_Witness ==
    /\ last.op = "read"
    /\ WellFormedUriRecord
    /\ Collected[5] = 4
    /\ Len(Collected) = 17
    /\ last.exit = "Uri"
    /\ last.uri = qrList[1].url

(* a record with a code outside the table, 0x23, was read back as its      *)
(* payload alone                                                           *)
C20_UnknownCodeRead ==
    /\ last.op = "read"
    /\ WellFormedUriRecord
    /\ Collected[5] = 35
    /\ last.exit = "Uri"
    /\ last.uri = <<97, 46, 98>>

----------------------------------------------------------------------------
(* Properties of the writer's lengths and of its effect on the tag *)

(* C21: RecordTooLarge is unreachable.  No call of writeNtagUri leaves by  *)
(* the "NDEF too large" branch; for a URL that passes the cap of 200 the   *)
(* record has urlLen + 5 <= 205 bytes, below the 512 of ndef[], the TLV    *)
(* has urlLen + 8 <= 208 bytes, below the 520 of tlv[], and the TLV length *)
(* byte and the payload length byte that go to the tag are urlLen + 5 and  *)
(* urlLen + 1, not truncated to 8 bits.                                    *)
C21_RecordTooLargeUnreachable ==
    last.op = "write" =>
        /\ last.exit # "RecordTooLarge"
        /\ Len(last.url) <= 200 =>
              LET ndef == NdefRecord(last.url)
                  tlv == TlvBlock(ndef)
              IN  /\ last.exit # "ValueTooLarge"
                  /\ Len(ndef) = Len(last.url) + 5
                  /\ Len(ndef) <= 205
                  /\ Len(ndef) < 512
                  /\ ndef[3] = Len(last.url) + 1
                  /\ Len(tlv) = Len(last.url) + 8
                  /\ Len(tlv) <= 208
                  /\ Len(tlv) < 520
                  /\ tlv[2] = Len(last.url) + 5
                  /\ (Len(last.calls) >= 2 /\ last.calls[2].ok) =>
                        last.calls[2].data = <<3, Len(last.url) + 5, 209, 1>>
                  /\ (Len(last.calls) >= 3 /\ last.calls[3].ok) =>
                        /\ last.calls[3].data[1] = Len(last.url) + 1
                        /\ last.calls[3].data[2] = 85

(* a URL of 200 bytes was written whole: the length bytes on the tag are   *)
(* 205 and 201 and the 208 bytes of the TLV took 52 pages                  *)
C21_Witness ==
    /\ last.op = "write"
    /\ Len(last.url) = 200
    /\ last.ok
    /\ last.exit = "complete"
    /\ Len(last.calls) = 53
    /\ mem[4] = <<3, 205, 209, 1>>
    /\ mem[5][1] = 201

(* C22: last write wins.  After writes that all succeeded, of URLs of any  *)
(* of the lengths 0..200 in any order, a read whose page reads succeed     *)
(* returns exactly the URL of the most recent write, whatever the writes   *)
(* before it left in the pages past its terminator.                        *)
C22_LastWriteWins ==
    (last.op = "read" /\ steps >= 1 /\ AllCallsOk) =>
        /\ stored.valid
        /\ last.exit = "Uri"
        /\ last.uri = stored.url
        /\ SubSeq(Window, 1, Len(stored.url) + 8) = WireTlv(stored.url)
        /\ Len(last.calls) = PagesFor(Len(stored.url) + 7)

(* a URL of one byte was written over longer ones and read back alone,     *)
(* while page 40 still holds bytes of an earlier write                     *)
C22_Witness ==
    /\ last.op = "read"
    /\ steps >= 2
    /\ AllCallsOk
    /\ stored.url = PatternUrl(1)
    /\ last.uri = PatternUrl(1)
    /\ mem[40] # <<0, 0, 0, 0>>

(* C23: effect of a failed write on the tag.  When writeNtagUri fails at   *)
(* the writePage call for page k, pages 4 .. k-1 hold the bytes of the new *)
(* TLV and pages 0-3, page k and every page above k hold what they held    *)
(* before the call; when it fails before the first page write, by the cap  *)
(* or by the pre-flight read, every page holds what it held before.        *)
C23_FailedWriteEffect ==
    [][ (last'.op = "write" /\ steps' = steps + 1 /\ ~last'.ok) =>
          LET n == Len(last'.calls)
              t == WireTlv(last'.url)
          IN  /\ last'.exit \in {"ValueTooLarge", "TagUnresponsive",
                                 "WriteFailedAtPage"}
              /\ last'.exit = "ValueTooLarge" => (n = 0 /\ mem' = mem)
              /\ last'.exit = "TagUnresponsive" =>
                    (n = 1 /\ last'.calls[1].op = "readPage" /\ mem' = mem)
              /\ last'.exit = "WriteFailedAtPage" =>
                    LET k == last'.calls[n].arg
                    IN  /\ last'.calls[n].op = "writePage"
                        /\ ~last'.calls[n].ok
                        /\ k >= 4
                        /\ k = 4 + (n - 2)
                        /\ \A p \in DOMAIN mem :
                              mem'[p] = IF p >= 4 /\ p < k
                                        THEN PageOf(t, p - 4)
                                        ELSE mem[p] ]_vars

(* the write of "https://www.espn.com" on a tag full of 0xAA failed at its *)
(* last page, page 10: pages 4 to 9 hold the new record, page 10 and the   *)
(* pages above it are still 0xAA                                           *)
C23_Witness ==
    /\ last.op = "write"
    /\ last.url = qrList[1].url
    /\ last.exit = "WriteFailedAtPage"
    /\ last.calls[Len(last.calls)].arg = 10
    /\ mem[4] = <<3, 25, 209, 1>>
    /\ mem[9] = PageOf(WireTlv(qrList[1].url), 5)
    /\ mem[10] = <<170, 170, 170, 170>>
    /\ mem[11] = <<170, 170, 170, 170>>
    /\ mem[3] = ReservedPage(3)

----------------------------------------------------------------------------
(* Properties of the tick test on the 32-bit counter *)

(* the value of a 32-bit counter difference as a number, below 2^31 here *)
Ms(x) == x.lo + W16 * x.hi

(* C24: clock wraparound.  In an iteration of loop() that finds the        *)
(* millisecond counter below the time of the last tick, the counter having *)
(* wrapped from 2^32 - 1 to 0 since that tick, the difference now -        *)
(* lastUpdate taken modulo 2^32 is the time that has really passed, and    *)
(* the cycle fires exactly when that time has reached 60000 ms: not        *)
(* earlier, and not later.                                                 *)
C24_ClockWraparound ==
    [][ (last'.op = "loop" /\ steps' = steps + 1 /\ ~Geq32(clock', lastUpdate)) =>
          /\ Ms(Sub32(clock', lastUpdate)) = last'.elapsed
          /\ last'.fired <=> last'.elapsed >= 60000
          /\ last'.fired => (lastUpdate' = clock' /\ currentQR' = NextQR(currentQR))
          /\ ~last'.fired => (lastUpdate' = lastUpdate /\ currentQR' = currentQR)
      ]_vars

(* the last tick was at 2^32 - 60000, a poll at 2^32 - 1 fired nothing and *)
(* the poll one millisecond later, with the counter back at 0, fired       *)
C24_Witness ==
    /\ last.op = "loop"
    /\ steps = 5
    /\ clock = Zero32
    /\ last.fired
    /\ last.elapsed = 60000
    /\ lastUpdate = Zero32
    /\ currentQR = 1

(* the last tick was at 2^32 - 59999 and the poll at counter value 0,      *)
(* 59999 ms later, fired nothing                                           *)
C24_NotEarly ==
    /\ last.op = "loop"
    /\ steps = 5
    /\ clock = Zero32
    /\ ~last.fired
    /\ last.elapsed = 59999
    /\ lastUpdate = Mk32(W16 - 1, W16 - 59999)

============================================================================
